---- MODULE Spec2Model ----
(***************************************************************************)
(* Lossy float32 codec of float_compression.py together with the two     *)
(* drivers of utils.py (benchmark_compression, benchmark_decompression). *)
(*                                                                         *)
(* A float32 is represented by its bit pattern viewed as a signed 32-bit  *)
(* integer (what x.view(np.int32) yields), so that every value fits the   *)
(* integers of the model checker.  Python's >>, <<, &, |, ~ are modelled  *)
(* on two's-complement integers of unbounded width, as Python has them.   *)
(***************************************************************************)
EXTENDS Integers, Sequences, FiniteSets

(***************************************************************************)
(* Bounds of the model.                                                    *)
(***************************************************************************)
\* Input mantissas have at most this many bits set.
MaxSetBits == 2
\* Longest input sequence handed to benchmark_compression.
MaxSamples == 2
\* Longest byte stream handed directly to load_packed_from_file.
MaxFileLen == 4

(***************************************************************************)
(* Program constants.                                                      *)
(***************************************************************************)
\* Width of the float32 mantissa field (mask 0x007FFFFF).
MantissaBits == 23
\* Width of the record written by packed.to_bytes(3, ...).
RecordBytes == 3

MinInt32 == (-2147483647) - 1

(***************************************************************************)
(* Python integer operators.                                               *)
(***************************************************************************)
\* a >> k : arithmetic shift, i.e. floor division by 2^k.
ShiftRight(a, k) ==
    IF k < 31 THEN a \div (2 ^ k) ELSE (a \div (2 ^ 30)) \div (2 ^ (k - 30))

\* a << k
ShiftLeft(a, k) == a * (2 ^ k)

\* ~a
BitNot(a) == (-a) - 1

RECURSIVE BitAnd(_, _)
\* a & b on two's-complement integers.
BitAnd(a, b) ==
    IF a = 0 \/ b = 0 THEN 0
    ELSE IF a = -1 THEN b
    ELSE IF b = -1 THEN a
    ELSE (a % 2) * (b % 2) + 2 * BitAnd(a \div 2, b \div 2)

RECURSIVE BitOr(_, _)
\* a | b on two's-complement integers.
BitOr(a, b) ==
    IF a = 0 THEN b
    ELSE IF b = 0 THEN a
    ELSE IF a = -1 \/ b = -1 THEN -1
    ELSE (IF a % 2 = 1 \/ b % 2 = 1 THEN 1 ELSE 0)
         + 2 * BitOr(a \div 2, b \div 2)

(***************************************************************************)
(* float_compression.py                                                    *)
(***************************************************************************)
RECURSIVE CountTrailingZeroes(_, _)
\* The while loop of extract_components: returns <<trailing_zeroes,
\* mantissa_zeroed>> as they stand when the loop exits.
CountTrailingZeroes(trailing_zeroes, mantissa_zeroed) ==
    IF BitAnd(mantissa_zeroed, 1) = 0
    THEN CountTrailingZeroes(trailing_zeroes + 1, ShiftRight(mantissa_zeroed, 1))
    ELSE <<trailing_zeroes, mantissa_zeroed>>

\* extract_components without the early return for an exponent field of 255.
extract_components_no_inf_nan_branch(x_int, nbits) ==
    LET sign_bit      == BitAnd(ShiftRight(x_int, 31), 1)
        exponent_bits == BitAnd(ShiftRight(x_int, 23), 255)
        mantissa      == BitAnd(x_int, 8388607)
        is_zero       == mantissa = 0 /\ exponent_bits = 0
        mask          == BitNot(ShiftLeft(1, nbits) - 1)
        mantissa_zeroed == BitAnd(mantissa, mask)
        loop          == IF mantissa_zeroed # 0
                         THEN CountTrailingZeroes(0, mantissa_zeroed)
                         ELSE <<0, mantissa_zeroed>>
        non_zero_mantissa == BitAnd(loop[2], 2047)
    IN  IF is_zero
        THEN <<sign_bit, exponent_bits, 0, 0>>
        ELSE <<sign_bit, exponent_bits, non_zero_mantissa, loop[1]>>

\* extract_components without the 11-bit mask on the shifted mantissa.
extract_components_unmasked(x_int, nbits) ==
    LET sign_bit      == BitAnd(ShiftRight(x_int, 31), 1)
        exponent_bits == BitAnd(ShiftRight(x_int, 23), 255)
        mantissa      == BitAnd(x_int, 8388607)
        is_zero       == mantissa = 0 /\ exponent_bits = 0
        is_inf_or_nan == exponent_bits = 255
        mask          == BitNot(ShiftLeft(1, nbits) - 1)
        mantissa_zeroed == BitAnd(mantissa, mask)
        loop          == IF mantissa_zeroed # 0
                         THEN CountTrailingZeroes(0, mantissa_zeroed)
                         ELSE <<0, mantissa_zeroed>>
    IN  IF is_zero \/ is_inf_or_nan
        THEN <<sign_bit, exponent_bits, 0, 0>>
        ELSE <<sign_bit, exponent_bits, loop[2], loop[1]>>

\* extract_components with the mask ~(1 << num_bits): only bit num_bits is
\* cleared.
extract_components_one_bit_mask(x_int, nbits) ==
    LET sign_bit      == BitAnd(ShiftRight(x_int, 31), 1)
        exponent_bits == BitAnd(ShiftRight(x_int, 23), 255)
        mantissa      == BitAnd(x_int, 8388607)
        is_zero       == mantissa = 0 /\ exponent_bits = 0
        is_inf_or_nan == exponent_bits = 255
        mask          == BitNot(ShiftLeft(1, nbits))
        mantissa_zeroed == BitAnd(mantissa, mask)
        loop          == IF mantissa_zeroed # 0
                         THEN CountTrailingZeroes(0, mantissa_zeroed)
                         ELSE <<0, mantissa_zeroed>>
        non_zero_mantissa == BitAnd(loop[2], 2047)
    IN  IF is_zero \/ is_inf_or_nan
        THEN <<sign_bit, exponent_bits, 0, 0>>
        ELSE <<sign_bit, exponent_bits, non_zero_mantissa, loop[1]>>

\* extract_components(x, num_bits) with x given as x.view(np.int32).
\* Returns <<sign_bit, exponent_bits, non_zero_mantissa, trailing_zeroes>>.
extract_components(x_int, nbits) ==
    LET sign_bit      == BitAnd(ShiftRight(x_int, 31), 1)
        exponent_bits == BitAnd(ShiftRight(x_int, 23), 255)
        mantissa      == BitAnd(x_int, 8388607)
        is_zero       == mantissa = 0 /\ exponent_bits = 0
        is_inf_or_nan == exponent_bits = 255
        mask          == BitNot(ShiftLeft(1, nbits) - 1)
        mantissa_zeroed == BitAnd(mantissa, mask)
        loop          == IF mantissa_zeroed # 0
                         THEN CountTrailingZeroes(0, mantissa_zeroed)
                         ELSE <<0, mantissa_zeroed>>
        non_zero_mantissa == BitAnd(loop[2], 2047)
    IN  IF is_zero \/ is_inf_or_nan
        THEN <<sign_bit, exponent_bits, 0, 0>>
        ELSE <<sign_bit, exponent_bits, non_zero_mantissa, loop[1]>>

\* The integer `packed` assembled by pack_components.
pack_value(sign_bit, exponent_bits, non_zero_mantissa, trailing_zeroes) ==
    BitOr(BitOr(BitOr(ShiftLeft(sign_bit, 23),
                      ShiftLeft(exponent_bits, 15)),
                ShiftLeft(non_zero_mantissa, 4)),
          BitAnd(trailing_zeroes, 15))

\* int.to_bytes(n, byteorder='big') raises OverflowError unless this holds.
fits_bytes(value, n) == value >= 0 /\ value < 256 ^ n

RECURSIVE to_bytes(_, _)
\* value.to_bytes(n, byteorder='big') for a value that fits.
to_bytes(value, n) ==
    IF n = 0 THEN <<>>
    ELSE Append(to_bytes(value \div 256, n - 1), value % 256)

\* pack_components(...) when to_bytes does not raise.
pack_components(sign_bit, exponent_bits, non_zero_mantissa, trailing_zeroes) ==
    to_bytes(pack_value(sign_bit, exponent_bits, non_zero_mantissa,
                        trailing_zeroes), RecordBytes)

RECURSIVE from_bytes(_)
\* int.from_bytes(bytes, byteorder='big')
from_bytes(bytes) ==
    IF bytes = <<>> THEN 0
    ELSE 256 * from_bytes(SubSeq(bytes, 1, Len(bytes) - 1)) + bytes[Len(bytes)]

\* unpack_components with a 10-bit mask (0x3FF) on the mantissa field.
unpack_components_short_mantissa(packed) ==
    <<BitAnd(ShiftRight(packed, 23), 1),
      BitAnd(ShiftRight(packed, 15), 255),
      BitAnd(ShiftRight(packed, 4), 1023),
      BitAnd(packed, 15)>>

\* unpack_components(packed)
unpack_components(packed) ==
    <<BitAnd(ShiftRight(packed, 23), 1),
      BitAnd(ShiftRight(packed, 15), 255),
      BitAnd(ShiftRight(packed, 4), 2047),
      BitAnd(packed, 15)>>

\* reconstruct_from_components without the shift that restores the
\* trailing zeroes.
reconstruct_from_components_no_shift(sign_bit, exponent_bits, non_zero_mantissa, trailing_zeroes) ==
    LET mantissa == non_zero_mantissa
        low      == BitOr(ShiftLeft(exponent_bits, 23), mantissa)
    IN  IF sign_bit = 1 THEN MinInt32 + low ELSE low

\* reconstruct_from_components(...): the uint32 x_int it assembles is
\* (sign_bit << 31) | low, with low below 2^31; the float32 it returns is
\* given by the same 32 bits viewed as int32.
reconstruct_from_components(sign_bit, exponent_bits, non_zero_mantissa, trailing_zeroes) ==
    LET mantissa == ShiftLeft(non_zero_mantissa, trailing_zeroes)
        low      == BitOr(ShiftLeft(exponent_bits, 23), mantissa)
    IN  IF sign_bit = 1 THEN MinInt32 + low ELSE low

RECURSIVE save_packed_to_file(_)
\* Contents of the file written by save_packed_to_file(packed_data, _).
save_packed_to_file(records) ==
    IF records = <<>> THEN <<>>
    ELSE Head(records) \o save_packed_to_file(Tail(records))

\* f.read(3) at offset pos of a file with the given contents.
file_read(contents, pos, n) ==
    SubSeq(contents, pos + 1, IF pos + n <= Len(contents)
                              THEN pos + n ELSE Len(contents))

(***************************************************************************)
(* Inputs.                                                                 *)
(***************************************************************************)
\* The int32 view of the float32 with the given fields.
FloatBits(s, e, m) == (IF s = 1 THEN MinInt32 ELSE 0) + e * (2 ^ MantissaBits) + m

\* Field accessors on a bit pattern (int32 view).
SignOf(x) == IF x < 0 THEN 1 ELSE 0
ExponentOf(x) == (x \div (2 ^ MantissaBits)) % 256
MantissaOf(x) == x % (2 ^ MantissaBits)
IsSpecial(x) == (ExponentOf(x) = 0 /\ MantissaOf(x) = 0) \/ ExponentOf(x) = 255

RECURSIVE MantissasUpTo(_)
\* The 23-bit mantissas with at most k bits set.
MantissasUpTo(k) ==
    IF k = 0 THEN {0}
    ELSE LET prev == MantissasUpTo(k - 1)
         IN  prev \cup UNION { { m + 2 ^ i :
                                   i \in { j \in 0 .. (MantissaBits - 1) :
                                             m < 2 ^ j } } : m \in prev }

Mantissas == MantissasUpTo(MaxSetBits)

\* Exponent fields of the floats that go through truncation: zero or
\* denormal, and a normal one (that of 3.0).
Exponents == {0, 128}

\* The inputs: every sign with every exponent of Exponents and every
\* mantissa of Mantissas, and the infinities and the NaNs whose payload has
\* one bit set.
Floats ==
    { FloatBits(s, e, m) : s \in {0, 1}, e \in Exponents, m \in Mantissas }
    \cup { FloatBits(s, 255, m) : s \in {0, 1}, m \in MantissasUpTo(1) }

NumBitsRange == 0 .. MantissaBits

\* +0.0, 1.0, 3.0, 1.0004884 (mantissa 0x001001), -inf, a NaN with payload.
SampleFloats == { FloatBits(0, 0, 0), FloatBits(0, 127, 0),
                  FloatBits(0, 128, 4194304), FloatBits(0, 127, 4097),
                  FloatBits(1, 255, 0), FloatBits(0, 255, 4194305) }

SeqsUpTo(S, n) == UNION { [1 .. k -> S] : k \in 0 .. n }

\* Byte values of the streams handed directly to load_packed_from_file.
SampleBytes == {0, 1, 64, 128, 255}

Files == SeqsUpTo(SampleBytes, MaxFileLen)

\* Field tuples handed directly to pack_components.
FieldTuples == {0, 1} \X {0, 128, 255} \X (0 .. 2047) \X (0 .. 15)

(***************************************************************************)
(* State.                                                                  *)
(***************************************************************************)
VARIABLES
    data,           \* the float32 array given to benchmark_compression
    num_bits,       \* num_bits_to_zero
    comps,          \* the tuple last returned by extract_components
    packed_data,    \* the list of 3-byte records built by benchmark_compression
    file,           \* contents of the compressed file
    fpos,           \* read offset of load_packed_from_file
    loaded,         \* packed_data of load_packed_from_file
    unpacked,       \* the tuple last returned by unpack_components
    reconstructed,  \* reconstructed_data of benchmark_decompression
    err,            \* the exception raised, "none" if none
    pc              \* position in the pipeline

vars == <<data, num_bits, comps, packed_data, file, fpos, loaded, unpacked,
          reconstructed, err, pc>>

NoTuple == <<0, 0, 0, 0>>

\* Nothing has been called yet.
Init ==
    /\ data = <<>>
    /\ num_bits = 0
    /\ comps = NoTuple
    /\ packed_data = <<>>
    /\ file = <<>>
    /\ fpos = 0
    /\ loaded = <<>>
    /\ unpacked = NoTuple
    /\ reconstructed = <<>>
    /\ err = "none"
    /\ pc = "start"

(***************************************************************************)
(* benchmark_compression                                                   *)
(***************************************************************************)
\* main calls benchmark_compression(dataset, num_bits_to_zero, filename) and
\* then benchmark_decompression(filename, _).  The dataset is any single
\* float of Floats, or any short sequence of sample floats.
CallCompression ==
    /\ pc = "start"
    /\ \/ \E x \in Floats : data' = <<x>>
       \/ data' \in SeqsUpTo(SampleFloats, MaxSamples)
    /\ num_bits' \in NumBitsRange
    /\ pc' = "compress"
    /\ UNCHANGED <<comps, packed_data, file, fpos, loaded, unpacked,
                   reconstructed, err>>

\* extract_components(x, num_bits_to_zero) for the next x of data.
Extract ==
    /\ pc = "compress"
    /\ Len(packed_data) < Len(data)
    /\ comps' = extract_components(data[Len(packed_data) + 1], num_bits)
    /\ pc' = "pack"
    /\ UNCHANGED <<data, num_bits, packed_data, file, fpos, loaded, unpacked,
                   reconstructed, err>>

\* pack_components(*comps): the record joins the list, or to_bytes raises.
Pack ==
    /\ pc = "pack"
    /\ IF fits_bytes(pack_value(comps[1], comps[2], comps[3], comps[4]),
                     RecordBytes)
       THEN /\ packed_data' = Append(packed_data,
                   pack_components(comps[1], comps[2], comps[3], comps[4]))
            /\ pc' = "compress"
            /\ err' = err
       ELSE /\ err' = "OverflowError"
            /\ pc' = "done"
            /\ packed_data' = packed_data
    /\ UNCHANGED <<data, num_bits, comps, file, fpos, loaded, unpacked,
                   reconstructed>>

\* save_packed_to_file(packed_data, filename) once the list is complete.
Save ==
    /\ pc = "compress"
    /\ Len(packed_data) = Len(data)
    /\ file' = save_packed_to_file(packed_data)
    /\ pc' = "load"
    /\ UNCHANGED <<data, num_bits, comps, packed_data, fpos, loaded, unpacked,
                   reconstructed, err>>

(***************************************************************************)
(* benchmark_decompression                                                 *)
(***************************************************************************)
\* One iteration of the loop of load_packed_from_file that reads bytes.
LoadRecord ==
    /\ pc = "load"
    /\ LET packed_bytes == file_read(file, fpos, RecordBytes)
       IN  /\ packed_bytes # <<>>
           /\ loaded' = Append(loaded, from_bytes(packed_bytes))
           /\ fpos' = fpos + Len(packed_bytes)
    /\ UNCHANGED <<data, num_bits, comps, packed_data, file, unpacked,
                   reconstructed, err, pc>>

\* The iteration that reads nothing: break, return packed_data.
LoadEnd ==
    /\ pc = "load"
    /\ file_read(file, fpos, RecordBytes) = <<>>
    /\ pc' = "decompress"
    /\ UNCHANGED <<data, num_bits, comps, packed_data, file, fpos, loaded,
                   unpacked, reconstructed, err>>

\* unpack_components(packed) for the next packed of the loaded list.
Unpack ==
    /\ pc = "decompress"
    /\ Len(reconstructed) < Len(loaded)
    /\ unpacked' = unpack_components(loaded[Len(reconstructed) + 1])
    /\ pc' = "reconstruct"
    /\ UNCHANGED <<data, num_bits, comps, packed_data, file, fpos, loaded,
                   reconstructed, err>>

\* reconstruct_from_components(*unpacked)
Reconstruct ==
    /\ pc = "reconstruct"
    /\ reconstructed' = Append(reconstructed,
           reconstruct_from_components(unpacked[1], unpacked[2], unpacked[3],
                                       unpacked[4]))
    /\ pc' = "decompress"
    /\ UNCHANGED <<data, num_bits, comps, packed_data, file, fpos, loaded,
                   unpacked, err>>

\* benchmark_decompression returns reconstructed_data.
Finish ==
    /\ pc = "decompress"
    /\ Len(reconstructed) = Len(loaded)
    /\ pc' = "done"
    /\ UNCHANGED <<data, num_bits, comps, packed_data, file, fpos, loaded,
                   unpacked, reconstructed, err>>

Next == CallCompression \/ Extract \/ Pack \/ Save \/ LoadRecord \/ LoadEnd
        \/ Unpack \/ Reconstruct \/ Finish

\* Compression of a dataset followed by its decompression, as in main.
Spec == Init /\ [][Next]_vars

(***************************************************************************)
(* Direct use of the packer and the unpacker on a field tuple.             *)
(***************************************************************************)
\* A caller picks the arguments of pack_components.
CallPack ==
    /\ pc = "start"
    /\ comps' \in FieldTuples
    /\ pc' = "pack_call"
    /\ UNCHANGED <<data, num_bits, packed_data, file, fpos, loaded, unpacked,
                   reconstructed, err>>

\* pack_components(*comps)
PackDirect ==
    /\ pc = "pack_call"
    /\ IF fits_bytes(pack_value(comps[1], comps[2], comps[3], comps[4]),
                     RecordBytes)
       THEN /\ packed_data' =
                   <<pack_components(comps[1], comps[2], comps[3], comps[4])>>
            /\ pc' = "unpack_call"
            /\ err' = err
       ELSE /\ err' = "OverflowError"
            /\ pc' = "returned"
            /\ packed_data' = packed_data
    /\ UNCHANGED <<data, num_bits, comps, file, fpos, loaded, unpacked,
                   reconstructed>>

\* unpack_components(int.from_bytes(record, byteorder='big'))
UnpackDirect ==
    /\ pc = "unpack_call"
    /\ unpacked' = unpack_components(from_bytes(packed_data[1]))
    /\ pc' = "returned"
    /\ UNCHANGED <<data, num_bits, comps, packed_data, file, fpos, loaded,
                   reconstructed, err>>

NextPack == CallPack \/ PackDirect \/ UnpackDirect

SpecPack == Init /\ [][NextPack]_vars

(***************************************************************************)
(* benchmark_decompression of a file that the codec did not write.         *)
(***************************************************************************)
\* A caller hands a file of any length to benchmark_decompression.
CallDecompression ==
    /\ pc = "start"
    /\ file' \in Files
    /\ pc' = "load"
    /\ UNCHANGED <<data, num_bits, comps, packed_data, fpos, loaded, unpacked,
                   reconstructed, err>>

NextLoad == CallDecompression \/ LoadRecord \/ LoadEnd \/ Unpack
            \/ Reconstruct \/ Finish

SpecLoad == Init /\ [][NextLoad]_vars

TypeOK ==
    /\ pc \in {"start", "compress", "pack", "load", "decompress",
               "reconstruct", "done", "pack_call", "unpack_call", "returned"}
    /\ err \in {"none", "OverflowError"}
    /\ fpos \in 0 .. Len(file)
    /\ \A i \in 1 .. Len(file) : file[i] \in 0 .. 255

(***************************************************************************)
(* Vocabulary of the properties.                                           *)
(***************************************************************************)
\* A mantissa with its low n bits cleared.
Cleared(m, n) == m - (m % (2 ^ n))

\* Number of trailing zero bits of M (0 for M = 0).
TrailingZeros(M) ==
    IF M = 0 THEN 0
    ELSE CHOOSE z \in 0 .. MantissaBits :
             M % (2 ^ z) = 0 /\ M % (2 ^ (z + 1)) # 0

\* M with its trailing zero bits shifted out.
Residual(M) == M \div (2 ^ TrailingZeros(M))

\* Encoding one float to a record and decoding the record.
EncodeOne(x, n) ==
    LET c == extract_components(x, n)
    IN  pack_components(c[1], c[2], c[3], c[4])

DecodeOne(record) ==
    LET u == unpack_components(from_bytes(record))
    IN  reconstruct_from_components(u[1], u[2], u[3], u[4])

Abs(a) == IF a < 0 THEN -a ELSE a

\* The pipeline has run to its end without an exception.
Decoded == pc = "done" /\ err = "none"

\* The float whose components extract_components last returned.
Current == data[Len(packed_data) + 1]

\* The record of the file that holds position i of the dataset.
RecordAt(i) == SubSeq(file, RecordBytes * (i - 1) + 1, RecordBytes * i)

Lossless(M) == Residual(M) < 2048 /\ TrailingZeros(M) <= 15

(***************************************************************************)
(* C1: Round trip.  For every non-special float x of the dataset and      *)
(* every num_bits, the decoded value has x's bit pattern with the low     *)
(* num_bits bits of the mantissa cleared, exactly.                        *)
(***************************************************************************)
C1_RoundTrip ==
    Decoded =>
        \A i \in 1 .. Len(data) :
            ~IsSpecial(data[i]) =>
                /\ i <= Len(reconstructed)
                /\ reconstructed[i] =
                       FloatBits(SignOf(data[i]), ExponentOf(data[i]),
                                 Cleared(MantissaOf(data[i]), num_bits))

(***************************************************************************)
(* C2: Round trip with zero truncation.  With num_bits = 0 every          *)
(* non-special float of the dataset is decoded to itself, bit for bit.    *)
(***************************************************************************)
C2_ZeroTruncation ==
    (Decoded /\ num_bits = 0) =>
        \A i \in 1 .. Len(data) :
            ~IsSpecial(data[i]) =>
                i <= Len(reconstructed) /\ reconstructed[i] = data[i]

(***************************************************************************)
(* C3: Pack/unpack inverse.  For every field tuple (s, e, m, t) within    *)
(* the field widths, pack_components returns 3 bytes, and unpacking their *)
(* big-endian value returns (s, e, m, t).                                 *)
(***************************************************************************)
C3_PackUnpackInverse ==
    /\ err = "none"
    /\ pc \in {"unpack_call", "returned"} =>
           /\ Len(packed_data[1]) = 3
           /\ \A k \in 1 .. 3 : packed_data[1][k] \in 0 .. 255
    /\ pc = "returned" => unpacked = comps

C3_Witness ==
    /\ pc = "returned"
    /\ comps = <<1, 255, 2047, 15>>
    /\ packed_data = << <<255, 255, 255>> >>
    /\ unpacked = comps

(***************************************************************************)
(* C4: Special values.  For a zero or an exponent field of 255, whatever  *)
(* num_bits, extract_components returns the sign, the exponent, residual  *)
(* mantissa 0 and trailing-zero count 0, and the decoded value has the    *)
(* same sign, the same exponent and mantissa 0; nothing is raised.        *)
(***************************************************************************)
C4_SpecialValues ==
    /\ (pc = "pack" /\ IsSpecial(Current)) =>
           comps = <<SignOf(Current), ExponentOf(Current), 0, 0>>
    /\ pc = "done" =>
           \A i \in 1 .. Len(data) :
               IsSpecial(data[i]) =>
                   /\ err = "none"
                   /\ i <= Len(reconstructed)
                   /\ reconstructed[i] =
                          FloatBits(SignOf(data[i]), ExponentOf(data[i]), 0)

\* A negative NaN with a payload has been encoded with a positive num_bits
\* and decoded to the negative NaN shape with mantissa 0.
C4_Witness ==
    /\ Decoded
    /\ num_bits > 0
    /\ Len(data) = 1
    /\ SignOf(data[1]) = 1 /\ ExponentOf(data[1]) = 255
    /\ Cleared(MantissaOf(data[1]), num_bits) # 0
    /\ reconstructed = <<FloatBits(1, 255, 0)>>

(***************************************************************************)
(* C5: Guarantee on the trailing-zero count.  The count returned by       *)
(* extract_components never exceeds 23 and fits the 4-bit field of the    *)
(* record (is at most 15).                                                *)
(***************************************************************************)
C5_TrailingZeroesFit ==
    pc = "pack" => comps[4] <= MantissaBits /\ comps[4] <= 15

(***************************************************************************)
(* C6: Malformed stream.  When the length of the file is not a multiple   *)
(* of 3, load_packed_from_file fails with an error: it does not return a  *)
(* list to decode.                                                        *)
(***************************************************************************)
C6_MalformedStreamFails ==
    (pc \in {"decompress", "reconstruct", "done"} /\ Len(file) % RecordBytes # 0)
        => err # "none"

(***************************************************************************)
(* C7: Truncation monotonicity.  For a non-special float x decoded with   *)
(* num_bits < 23, the distance between x's mantissa and the decoded       *)
(* mantissa is no larger than the distance obtained with num_bits + 1.    *)
(***************************************************************************)
C7_Monotonicity ==
    (Decoded /\ num_bits < MantissaBits) =>
        \A i \in 1 .. Len(data) :
            ~IsSpecial(data[i]) =>
                Abs(MantissaOf(data[i]) - MantissaOf(reconstructed[i]))
                  <= Abs(MantissaOf(data[i])
                         - MantissaOf(DecodeOne(EncodeOne(data[i],
                                                          num_bits + 1))))

(***************************************************************************)
(* C8: Fixed expansion ratio.  Nothing is raised while compressing; every *)
(* record is 3 bytes; the file holds exactly 3 * N bytes for a dataset of *)
(* N floats, and its record i is the encoding of float i (it starts with  *)
(* the sign bit and the exponent field of float i).                       *)
(***************************************************************************)
C8_FixedRatio ==
    /\ err = "none"
    /\ \A i \in 1 .. Len(packed_data) : Len(packed_data[i]) = 3
    /\ pc \in {"load", "decompress", "reconstruct", "done"} =>
           /\ Len(file) = 3 * Len(data)
           /\ \A i \in 1 .. Len(data) :
                  /\ (pc = "load" /\ fpos = 0) =>
                         RecordAt(i) = EncodeOne(data[i], num_bits)
                  /\ file[3 * i - 2] =
                         128 * SignOf(data[i]) + ExponentOf(data[i]) \div 2
                  /\ file[3 * i - 1] \div 128 = ExponentOf(data[i]) % 2

\* Two different floats, one of them special, have been written as 6 bytes.
C8_Witness ==
    /\ pc = "done"
    /\ Len(data) = 2
    /\ data[1] # data[2]
    /\ IsSpecial(data[1]) /\ ~IsSpecial(data[2])
    /\ Len(file) = 6

(***************************************************************************)
(* C9 as stated: for every float x, the returned count is at most 23 and  *)
(* the returned residual is within 0..2047; when the cleared mantissa is  *)
(* zero both are 0; otherwise the count is the number of trailing zero    *)
(* bits of the cleared mantissa and the residual is the low 11 bits of    *)
(* the cleared mantissa shifted right by the count, hence odd.            *)
(***************************************************************************)
C9_AsStated ==
    pc = "pack" =>
        LET M == Cleared(MantissaOf(Current), num_bits)
        IN  /\ comps[4] <= MantissaBits
            /\ comps[3] \in 0 .. 2047
            /\ M = 0 => (comps[3] = 0 /\ comps[4] = 0)
            /\ M # 0 => /\ comps[4] = TrailingZeros(M)
                        /\ comps[3] = Residual(M) % 2048
                        /\ comps[3] % 2 = 1

(***************************************************************************)
(* C9 amended: the same, where the case of a non-zero cleared mantissa is *)
(* stated for the floats that are not special values; for a special       *)
(* value both fields are 0.                                               *)
(***************************************************************************)
C9_TruncatedMantissa ==
    pc = "pack" =>
        LET M == Cleared(MantissaOf(Current), num_bits)
        IN  /\ comps[4] <= MantissaBits
            /\ comps[3] \in 0 .. 2047
            /\ M = 0 => (comps[3] = 0 /\ comps[4] = 0)
            /\ IsSpecial(Current) => (comps[3] = 0 /\ comps[4] = 0)
            /\ (M # 0 /\ ~IsSpecial(Current)) =>
                   /\ comps[4] = TrailingZeros(M)
                   /\ comps[3] = Residual(M) % 2048
                   /\ comps[3] % 2 = 1

\* A denormal that loses a low bit to the truncation and keeps a single
\* high bit, with more than 15 trailing zeros below it.
C9_Witness ==
    /\ pc = "pack"
    /\ ExponentOf(Current) = 0
    /\ num_bits > 0
    /\ MantissaOf(Current) # Cleared(MantissaOf(Current), num_bits)
    /\ Cleared(MantissaOf(Current), num_bits) # 0
    /\ comps[4] > 15
    /\ comps[3] = 1

(***************************************************************************)
(* C10: Lossless records.  For a non-special float x, with M its cleared  *)
(* mantissa, z the trailing zeros of M and r = M >> z: the decoded value  *)
(* keeps sign and exponent; its mantissa is M iff r < 2048 and z <= 15;   *)
(* otherwise its mantissa is (r mod 2048) << (z mod 16), which is below M *)
(* and below 2^23.                                                        *)
(***************************************************************************)
C10_LosslessRecords ==
    Decoded =>
        \A i \in 1 .. Len(data) :
            ~IsSpecial(data[i]) =>
                LET M   == Cleared(MantissaOf(data[i]), num_bits)
                    z   == TrailingZeros(M)
                    r   == Residual(M)
                    got == reconstructed[i]
                    wrapped == (r % 2048) * (2 ^ (z % 16))
                IN  /\ SignOf(got) = SignOf(data[i])
                    /\ ExponentOf(got) = ExponentOf(data[i])
                    /\ (MantissaOf(got) = M) <=> Lossless(M)
                    /\ ~Lossless(M) =>
                           /\ wrapped < M
                           /\ wrapped < 2 ^ MantissaBits
                           /\ got = FloatBits(SignOf(data[i]),
                                              ExponentOf(data[i]), wrapped)

\* 3.0 (mantissa 2^22, 22 trailing zeros) has been decoded with mantissa 64.
C10_Witness ==
    /\ Decoded
    /\ data = <<FloatBits(0, 128, 4194304)>>
    /\ num_bits = 12
    /\ reconstructed = <<FloatBits(0, 128, 64)>>

====
